---- MODULE Spec2Model ----
(***************************************************************************)
(* Model of src/app.py: a Streamlit dashboard that fetches crypto prices   *)
(* from the CoinGecko API on a button press, labels each record with a     *)
(* risk level, appends the records to a per-session history and renders    *)
(* a chart and a raw table from the session state.                         *)
(*                                                                         *)
(* Numbers (prices, percentage changes) are rationals k / Scale, stored    *)
(* as the integer k.  Timestamps are wall-clock readings from Times; the   *)
(* wall clock (datetime.utcnow) is not monotonic, so a reading may be      *)
(* lower than an earlier one.                                              *)
(***************************************************************************)
EXTENDS Integers, Sequences, FiniteSets, TLC

VARIABLES
    history,            \* st.session_state["history"]: sequence of rows
    last_live_data,     \* st.session_state["last_live_data"]: ordered mapping
    selected,           \* value of the sidebar multiselect (display names)
    run,                \* what the button branch of the last script run did
    page,               \* what the last script run rendered
    call,               \* a direct call of a helper function: its arguments
    ret                 \* ... and what it returned

vars == <<history, last_live_data, selected, run, page, call, ret>>

----------------------------------------------------------------------------
(* Bounds of the model *)

Scale == 4          \* numbers are multiples of 1/Scale
MaxChange == 13     \* classify_risk is probed on -MaxChange..MaxChange percent
MaxHist == 2        \* Spec: refreshes stop when the log would exceed this
LongHist == 102     \* SpecTable: the log grows to this length

(* Program constants *)

HighThreshold == 10
MediumThreshold == 5
TableLimit == 100
DefaultChange == 0

\* The readings of the wall clock
Times ==
    {0, 1}

----------------------------------------------------------------------------
(* CONFIG *)

CoinNames ==
    {"Bitcoin (BTC)", "Ethereum (ETH)", "Solana (SOL)",
     "Tether (USDT)", "BNB (BNB)", "XRP (XRP)"}

COINS ==
    [name \in CoinNames |->
        CASE name = "Bitcoin (BTC)" -> "bitcoin"
          [] name = "Ethereum (ETH)" -> "ethereum"
          [] name = "Solana (SOL)" -> "solana"
          [] name = "Tether (USDT)" -> "tether"
          [] name = "BNB (BNB)" -> "binancecoin"
          [] name = "XRP (XRP)" -> "ripple"]

DefaultSelection ==
    {"Bitcoin (BTC)", "Ethereum (ETH)", "Solana (SOL)"}

\* The selections the modelled user makes in the multiselect.
Selections ==
    {{}, {"Bitcoin (BTC)"}, {"Ethereum (ETH)"}, DefaultSelection}

\* {v: k for k, v in COINS.items()}.get(coin_id, coin_id)
id_to_display(coin_id) ==
    IF \E name \in CoinNames : COINS[name] = coin_id
    THEN CHOOSE name \in CoinNames : COINS[name] = coin_id
    ELSE coin_id

\* [COINS[name] for name in selected_coins_display]
selected_ids(sel) ==
    {COINS[name] : name \in sel}

----------------------------------------------------------------------------
(* JSON values of the API response: a key may be absent, null or a number *)

JAbsent == [k |-> "absent", v |-> 0]
JNull == [k |-> "null", v |-> 0]
JNum(n) == [k |-> "num", v |-> n]

\* info.get(key): None when the key is absent or its value is null
GetIsNone(j) ==
    j.k # "num"

\* info.get(key, default): the default only when the key is absent
GetOrDefault(j, default) ==
    IF j.k = "absent" THEN JNum(default) ELSE j

\* float(x) raises TypeError on None
FloatRaises(j) ==
    j.k # "num"

\* float(x) of a JSON number: the same number
Float(j) ==
    j.v

----------------------------------------------------------------------------
(* classify_risk *)

Abs(x) ==
    IF x < 0 THEN -x ELSE x

classify_risk_strict(change_24h) ==
    IF Abs(change_24h) > HighThreshold * Scale THEN "HIGH"
    ELSE IF Abs(change_24h) > MediumThreshold * Scale THEN "MEDIUM"
    ELSE "LOW"

classify_risk(change_24h) ==
    IF Abs(change_24h) >= HighThreshold * Scale THEN "HIGH"
    ELSE IF Abs(change_24h) >= MediumThreshold * Scale THEN "MEDIUM"
    ELSE "LOW"

----------------------------------------------------------------------------
(* fetch_live_prices *)

RequestFails_no_status(api) ==
    api.kind # "response"

\* requests.get raises (timeout, connection error) or raise_for_status
\* raises HTTPError on a 4xx/5xx status
RequestFails(api) ==
    \/ api.kind # "response"
    \/ (api.status >= 400 /\ api.status < 600)

\* The cleaning loop over raw.items(), from entry i on, with the mapping
\* built so far.  An exception in float() leaves the function at once.
RECURSIVE CleanLoop(_, _, _)
CleanLoop(raw, i, cleaned) ==
    IF i > Len(raw) THEN [raised |-> FALSE, value |-> cleaned]
    ELSE LET price == raw[i].usd
             change == GetOrDefault(raw[i].usd_24h_change, DefaultChange)
         IN IF GetIsNone(price) THEN CleanLoop(raw, i + 1, cleaned)
            ELSE IF FloatRaises(price) \/ FloatRaises(change)
                 THEN [raised |-> TRUE, value |-> <<>>]
                 ELSE CleanLoop(raw, i + 1,
                        Append(cleaned, [coin_id |-> raw[i].coin_id,
                                         price |-> Float(price),
                                         change_24h |-> Float(change)]))

fetch_live_prices_no_guard(selected_coin_ids, api) ==
    IF RequestFails(api)
    THEN [raised |-> FALSE, value |-> <<>>, error |-> TRUE, requested |-> TRUE]
    ELSE LET c == CleanLoop(api.body, 1, <<>>)
         IN [raised |-> c.raised, value |-> c.value,
             error |-> FALSE, requested |-> TRUE]

\* Result: the returned mapping (value), whether an exception escaped
\* (raised), whether st.error was called (error) and whether the HTTP
\* request was sent (requested).
fetch_live_prices(selected_coin_ids, api) ==
    IF selected_coin_ids = {}
    THEN [raised |-> FALSE, value |-> <<>>, error |-> FALSE, requested |-> FALSE]
    ELSE IF RequestFails(api)
    THEN [raised |-> FALSE, value |-> <<>>, error |-> TRUE, requested |-> TRUE]
    ELSE LET c == CleanLoop(api.body, 1, <<>>)
         IN [raised |-> c.raised, value |-> c.value,
             error |-> FALSE, requested |-> TRUE]

----------------------------------------------------------------------------
(* update_history *)

NewRow_risk_of_price(entry, now) ==
    [timestamp |-> now,
     coin_name |-> id_to_display(entry.coin_id),
     coin_id |-> entry.coin_id,
     price |-> entry.price,
     change_24h |-> entry.change_24h,
     risk |-> classify_risk(entry.price)]

NewRow(entry, now) ==
    [timestamp |-> now,
     coin_name |-> id_to_display(entry.coin_id),
     coin_id |-> entry.coin_id,
     price |-> entry.price,
     change_24h |-> entry.change_24h,
     risk |-> classify_risk(entry.change_24h)]

new_rows(live_data, now) ==
    [i \in 1 .. Len(live_data) |-> NewRow(live_data[i], now)]

update_history_prepend(hist, live_data, now) ==
    IF new_rows(live_data, now) # <<>>
    THEN new_rows(live_data, now) \o hist
    ELSE hist

update_history(hist, live_data, now) ==
    IF new_rows(live_data, now) # <<>>
    THEN hist \o new_rows(live_data, now)
    ELSE hist

----------------------------------------------------------------------------
(* The views of main().  A DataFrame derived from the history keeps the    *)
(* history's index labels, so a view is a sequence of indices of the log.  *)

Indices(hist) ==
    [i \in 1 .. Len(hist) |-> i]

Reverse(s) ==
    [i \in 1 .. Len(s) |-> s[Len(s) + 1 - i]]

FilterHistory_all(hist, sel) ==
    Indices(hist)

\* history_df[history_df["coin_name"].isin(selected_coins_display)]
FilterHistory(hist, sel) ==
    LET keep(i) == hist[i].coin_name \in sel
    IN SelectSeq(Indices(hist), keep)

\* filtered.pivot_table(index="timestamp", columns="coin_name",
\*                      values="price", aggfunc="last").sort_index():
\* the non-empty cells of the chart table.
PivotChart(hist, filtered) ==
    LET pos == 1 .. Len(filtered)
        row(p) == hist[filtered[p]]
        same(p, q) == /\ row(p).timestamp = row(q).timestamp
                      /\ row(p).coin_name = row(q).coin_name
        is_last(p) == \A q \in pos : q > p => ~same(p, q)
    IN {[timestamp |-> row(p).timestamp,
         coin_name |-> row(p).coin_name,
         price |-> row(p).price] : p \in {q \in pos : is_last(q)}}

\* The rows with timestamp t, in log order, or in the opposite order when
\* rev: sort_values uses an unstable sort, the order of ties is open.
TiedRows(hist, t, rev) ==
    LET at(i) == hist[i].timestamp = t
        rows == SelectSeq(Indices(hist), at)
    IN IF rev THEN Reverse(rows) ELSE rows

\* history_df.sort_values("timestamp", ascending=False), for the
\* timestamps ts still to place.
RECURSIVE SortDescending(_, _, _)
SortDescending(hist, ts, rev) ==
    IF ts = {} THEN <<>>
    ELSE LET t == CHOOSE x \in ts : \A y \in ts : y <= x
         IN TiedRows(hist, t, rev) \o SortDescending(hist, ts \ {t}, rev)

HeadRows(s, n) ==
    SubSeq(s, 1, IF Len(s) < n THEN Len(s) ELSE n)

RawTable_unsorted(hist, rev) ==
    HeadRows(IF rev THEN Reverse(Indices(hist)) ELSE Indices(hist), TableLimit)

\* history_df.sort_values("timestamp", ascending=False).head(100)
RawTable(hist, rev) ==
    HeadRows(SortDescending(hist,
                {hist[i].timestamp : i \in 1 .. Len(hist)}, rev),
             TableLimit)

\* The orders of ties sort_values can produce: one when no timestamp
\* occurs twice.
TieOrders(hist) ==
    IF \E i, j \in 1 .. Len(hist) : i < j /\ hist[i].timestamp = hist[j].timestamp
    THEN BOOLEAN ELSE {FALSE}

\* The rendering part of main(): everything after the button branch.
\* flash: the messages the button branch has already written.
Render(hist, live_data, sel, flash, rev) ==
    LET filtered == IF hist = <<>> THEN <<>> ELSE FilterHistory(hist, sel)
    IN [messages |->
            flash
            \cup (IF live_data = <<>> THEN {"no_live_data"} ELSE {})
            \cup (IF hist = <<>> THEN {"history_hint", "no_data_collected"}
                  ELSE IF filtered = <<>> THEN {"no_history_for_selected"}
                  ELSE {}),
        filtered |-> filtered,
        chart |-> IF filtered = <<>> THEN {} ELSE PivotChart(hist, filtered),
        table |-> IF hist = <<>> THEN <<>> ELSE RawTable(hist, rev)]

\* An exception that escapes main() ends the script run: Streamlit shows
\* the exception and nothing that main() would have rendered after it.
ExceptionPage ==
    [messages |-> {"exception"}, filtered |-> <<>>, chart |-> {}, table |-> <<>>]

----------------------------------------------------------------------------
(* The session *)

\* The button branch of a script run: whether the button was pressed, what
\* the HTTP request met (kind, status), and what fetch_live_prices did.
IdleRun ==
    [pressed |-> FALSE, kind |-> "none", status |-> 0, requested |-> FALSE,
     error |-> FALSE, raised |-> FALSE, result |-> <<>>]

NoCall ==
    [fn |-> "none"]

\* The state after the first script run of a session: nothing fetched,
\* the multiselect at its default.
Init ==
    /\ history = <<>>
    /\ last_live_data = <<>>
    /\ selected = DefaultSelection
    /\ run = IdleRun
    /\ page = Render(<<>>, <<>>, DefaultSelection, {}, FALSE)
    /\ call = NoCall
    /\ ret = NoCall

\* A script run without the button: the user changed the multiselect to
\* sel (or touched a widget and left the selection as it was).
Rerun(sel) ==
    /\ selected' = sel
    /\ run' = IdleRun
    /\ \E rev \in TieOrders(history) :
         page' = Render(history, last_live_data, sel, {}, rev)
    /\ UNCHANGED <<history, last_live_data, call, ret>>

next_history_latest_only(hist, live_data, now) ==
    IF live_data # <<>> THEN new_rows(live_data, now) ELSE hist

\* if live_data: update_history(live_data)
next_history(hist, live_data, now) ==
    IF live_data # <<>> THEN update_history(hist, live_data, now) ELSE hist

next_last_always(last, live_data) ==
    live_data

\* if live_data: st.session_state["last_live_data"] = live_data
next_last(last, live_data) ==
    IF live_data # <<>> THEN live_data ELSE last

\* A script run with the button pressed: main() as a whole.  api is what
\* the HTTP request meets, now the reading of the wall clock.
Refresh(api, now) ==
    LET r == fetch_live_prices(selected_ids(selected), api)
        flash == (IF r.error THEN {"fetch_error"} ELSE {})
                 \cup (IF r.value # <<>> THEN {"refreshed"} ELSE {})
        hist == next_history(history, r.value, now)
        live == next_last(last_live_data, r.value)
    IN /\ run' = [pressed |-> TRUE, kind |-> api.kind, status |-> api.status,
                  requested |-> r.requested, error |-> r.error,
                  raised |-> r.raised, result |-> r.value]
       /\ IF r.raised
          THEN /\ page' = ExceptionPage
               /\ UNCHANGED <<history, last_live_data>>
          ELSE /\ history' = hist
               /\ last_live_data' = live
               /\ \E rev \in TieOrders(hist) :
                    page' = Render(hist, live, selected, flash, rev)
       /\ UNCHANGED <<selected, call, ret>>

----------------------------------------------------------------------------
(* What the HTTP request can meet *)

RespIds ==
    {"bitcoin", "dogecoin"}

\* Entries of a response body: with price and change, without a change,
\* without a price, with a null change.
Infos ==
    {[usd |-> JNum(3 * Scale), usd_24h_change |-> JNum(-HighThreshold * Scale)],
     [usd |-> JNum(3 * Scale), usd_24h_change |-> JAbsent],
     [usd |-> JNull, usd_24h_change |-> JNum(MediumThreshold * Scale)],
     [usd |-> JNum(3 * Scale), usd_24h_change |-> JNull]}

Entry(id, info) ==
    [coin_id |-> id, usd |-> info.usd, usd_24h_change |-> info.usd_24h_change]

\* The JSON objects with at most two keys from ids: sequences of entries
\* with distinct keys, in the order of the response.
Bodies(ids, infos) ==
    {<<>>}
    \cup {<<Entry(a, x)>> : a \in ids, x \in infos}
    \cup {<<Entry(p[1], x), Entry(p[2], y)>> :
            p \in {q \in ids \X ids : q[1] # q[2]}, x \in infos, y \in infos}

Failures ==
    {[kind |-> "timeout", status |-> 0, body |-> <<>>],
     [kind |-> "connection_error", status |-> 0, body |-> <<>>],
     [kind |-> "response", status |-> 404, body |-> <<>>],
     [kind |-> "response", status |-> 503, body |-> <<>>]}

Responses(ids, infos) ==
    {[kind |-> "response", status |-> 200, body |-> b] : b \in Bodies(ids, infos)}

Apis ==
    Failures \cup Responses(RespIds, Infos)

\* The clock is read by update_history alone: a run that does not reach
\* it is the same run under every reading.
ClockReads(sel, api) ==
    IF fetch_live_prices(selected_ids(sel), api).value # <<>>
    THEN Times ELSE {0}

Next ==
    \/ \E sel \in Selections : Rerun(sel)
    \/ \E api \in Apis :
         /\ Len(history) + Len(api.body) <= MaxHist
         /\ \E now \in ClockReads(selected, api) : Refresh(api, now)

Spec ==
    Init /\ [][Next]_vars

----------------------------------------------------------------------------
(* classify_risk called on its own, over a range around both thresholds *)

ChangeRange ==
    (-MaxChange * Scale) .. (MaxChange * Scale)

ClassifyCall(c) ==
    /\ call' = [fn |-> "classify_risk", change_24h |-> c]
    /\ ret' = [value |-> classify_risk(c)]
    /\ UNCHANGED <<history, last_live_data, selected, run, page>>

NextClassify ==
    \E c \in ChangeRange : ClassifyCall(c)

SpecClassify ==
    Init /\ [][NextClassify]_vars

----------------------------------------------------------------------------
(* fetch_live_prices called on its own, over every shape of entry *)

JPrices ==
    {JAbsent, JNull, JNum(3 * Scale), JNum(7 * Scale + 1)}

JChanges ==
    {JAbsent, JNull, JNum(-HighThreshold * Scale), JNum(MediumThreshold * Scale - 1)}

FetchInfos ==
    {[usd |-> p, usd_24h_change |-> c] : p \in JPrices, c \in JChanges}

FetchApis ==
    Failures \cup Responses(RespIds, FetchInfos)

FetchCall(ids, api) ==
    /\ call' = [fn |-> "fetch_live_prices", selected_coin_ids |-> ids, api |-> api]
    /\ ret' = fetch_live_prices(ids, api)
    /\ UNCHANGED <<history, last_live_data, selected, run, page>>

NextFetch ==
    \E sel \in Selections, api \in FetchApis : FetchCall(selected_ids(sel), api)

SpecFetch ==
    Init /\ [][NextFetch]_vars

----------------------------------------------------------------------------
(* A long session: one asset refreshed until the log is longer than the    *)
(* raw table, under a wall clock that is set back after its last reading.  *)

LongApi ==
    [kind |-> "response", status |-> 200,
     body |-> <<Entry("bitcoin",
                      [usd |-> JNum(3 * Scale),
                       usd_24h_change |-> JNum(-HighThreshold * Scale)])>>]

NextTable ==
    /\ Len(history) < LongHist
    /\ Refresh(LongApi, Len(history) % Cardinality(Times))

SpecTable ==
    Init /\ [][NextTable]_vars

----------------------------------------------------------------------------
(* Properties *)

IsPrefix(s, t) ==
    /\ Len(s) <= Len(t)
    /\ SubSeq(t, 1, Len(s)) = s

\* The request of a pressed run met a timeout, a network error or a
\* status outside 2xx.
ApiFailed(r) ==
    \/ r.kind \in {"timeout", "connection_error"}
    \/ (r.kind = "response" /\ ~(r.status >= 200 /\ r.status < 300))

\* C1: classify_risk(c) is HIGH iff |c| >= 10, MEDIUM iff 5 <= |c| < 10 and
\* LOW iff |c| < 5, and is always one of the three labels.
C1_ClassifyThresholds ==
    call.fn = "classify_risk" =>
        LET c == call.change_24h
            high == c >= HighThreshold * Scale \/ c <= -HighThreshold * Scale
            medium == /\ ~high
                      /\ (c >= MediumThreshold * Scale \/ c <= -MediumThreshold * Scale)
        IN /\ ret.value \in {"HIGH", "MEDIUM", "LOW"}
           /\ (ret.value = "HIGH") <=> high
           /\ (ret.value = "MEDIUM") <=> medium
           /\ (ret.value = "LOW") <=> (~high /\ ~medium)

\* classify_risk was called with -5 and returned MEDIUM.
C1_Witness ==
    /\ call.fn = "classify_risk"
    /\ call.change_24h = -MediumThreshold * Scale
    /\ ret.value = "MEDIUM"

C3_EmptySelection ==
    [][(run'.pressed /\ selected = {}) =>
         /\ ~run'.requested
         /\ run'.result = <<>>
         /\ ~run'.raised
         /\ history' = history
         /\ last_live_data' = last_live_data]_vars

\* The button was pressed with nothing selected, with data in the log.
C3_Witness ==
    /\ run.pressed
    /\ selected = {}
    /\ ~run.requested
    /\ history # <<>>

\* C4: a refresh that hands k records to update_history on a log of length
\* n gives a log of length n + k that keeps the n old rows and ends with
\* one row per record, in the order of the records.
C4_AppendInOrder ==
    [][(run'.pressed /\ run'.result # <<>>) =>
         LET n == Len(history)
             k == Len(run'.result)
         IN /\ Len(history') = n + k
            /\ \A i \in 1 .. n : history'[i] = history[i]
            /\ \A i \in 1 .. k :
                 /\ history'[n + i].coin_id = run'.result[i].coin_id
                 /\ history'[n + i].price = run'.result[i].price
                 /\ history'[n + i].change_24h = run'.result[i].change_24h]_vars

\* One record was appended to a log of one row with another asset.
C4_Witness ==
    /\ run.pressed
    /\ Len(run.result) = 1
    /\ Len(history) = 2
    /\ history[1].coin_id = "dogecoin"
    /\ history[2].coin_id = "bitcoin"

\* C5: the history is append-only: every step keeps the log as a prefix of
\* the next log.
C5_AppendOnly ==
    [][IsPrefix(history, history')]_vars

\* Two refreshes were appended, the second under an earlier clock reading,
\* and the page was rendered again afterwards.
C5_Witness ==
    /\ Len(history) = 2
    /\ history[1].timestamp > history[2].timestamp
    /\ ~run.pressed

\* C6: every row of the history carries the risk label of its own change.
C6_RiskMatchesChange ==
    \A i \in 1 .. Len(history) :
        history[i].risk = classify_risk(history[i].change_24h)

\* The log holds a HIGH row and a LOW row.
C6_Witness ==
    /\ \E i \in 1 .. Len(history) : history[i].risk = "HIGH"
    /\ \E i \in 1 .. Len(history) : history[i].risk = "LOW"

\* What C7 says fetch_live_prices returns for a response body: the entries
\* that have a price, with a change of 0.0 where the entry has none.
ClaimedClean(body) ==
    LET has_price(e) == e.usd.k = "num"
        kept == SelectSeq(body, has_price)
    IN [i \in 1 .. Len(kept) |->
          [coin_id |-> kept[i].coin_id,
           price |-> kept[i].usd.v,
           change_24h |-> IF kept[i].usd_24h_change.k = "num"
                          THEN kept[i].usd_24h_change.v ELSE DefaultChange]]

\* C7: for a successful response fetch_live_prices returns, without
\* failing, exactly the entries that have a price, an entry without a
\* change with change 0.0.
C7_CleanedEntries ==
    (/\ call.fn = "fetch_live_prices"
     /\ call.selected_coin_ids # {}
     /\ call.api.kind = "response"
     /\ call.api.status = 200) =>
        /\ ~ret.raised
        /\ ret.value = ClaimedClean(call.api.body)

\* C8: the filtered history holds exactly the rows of the log whose asset
\* name is selected, and the chart has no cell of another asset.
C8_FilterExcludes ==
    "exception" \notin page.messages =>
        LET shown == {page.filtered[p] : p \in 1 .. Len(page.filtered)}
        IN /\ shown = {i \in 1 .. Len(history) : history[i].coin_name \in selected}
           /\ Cardinality(shown) = Len(page.filtered)
           /\ \A c \in page.chart : c.coin_name \in selected

\* The log holds rows of an asset that is not selected next to rows of a
\* selected one, and the chart is drawn.
C8_Witness ==
    /\ "exception" \notin page.messages
    /\ page.filtered # <<>>
    /\ page.chart # {}
    /\ \E i \in 1 .. Len(history) : history[i].coin_name \notin selected

\* C9: the raw table shows min(n, 100) rows of the log, in descending order
\* of timestamp, and no row left out is later than a row shown.
C9_RawTable ==
    "exception" \notin page.messages =>
        LET t == page.table
            n == Len(history)
            shown == {t[p] : p \in 1 .. Len(t)}
        IN /\ Len(t) = (IF n < TableLimit THEN n ELSE TableLimit)
           /\ shown \subseteq 1 .. n
           /\ Cardinality(shown) = Len(t)
           /\ \A p \in 1 .. Len(t) - 1 :
                history[t[p]].timestamp >= history[t[p + 1]].timestamp
           /\ \A i \in (1 .. n) \ shown : \A j \in shown :
                history[i].timestamp <= history[j].timestamp

\* The log is longer than the table, which shows 100 rows and leaves out
\* a row of the log.
C9_Witness ==
    /\ Len(history) > TableLimit
    /\ Len(page.table) = TableLimit
    /\ \E i \in 1 .. Len(history) : \A p \in 1 .. Len(page.table) : page.table[p] # i

\* The last fetch is empty exactly when the log is, and its entries are the
\* last rows of the log, under one timestamp.
LastFetchAgrees ==
    /\ (last_live_data = <<>>) <=> (history = <<>>)
    /\ last_live_data # <<>> =>
         LET n == Len(history)
             k == Len(last_live_data)
         IN /\ k <= n
            /\ \A i \in 1 .. k :
                 /\ history[n - k + i].coin_id = last_live_data[i].coin_id
                 /\ history[n - k + i].price = last_live_data[i].price
                 /\ history[n - k + i].change_24h = last_live_data[i].change_24h
                 /\ history[n - k + i].timestamp = history[n].timestamp

\* C10: the last fetch and the history agree in every state, and a refresh
\* either stores its result in both or changes neither.
C10_LastFetchInStep ==
    /\ []LastFetchAgrees
    /\ [][run'.pressed =>
            \/ (history' = history /\ last_live_data' = last_live_data)
            \/ (/\ run'.result # <<>>
                /\ last_live_data' = run'.result
                /\ Len(history') = Len(history) + Len(run'.result))]_vars

\* A refresh failed after two refreshes had stored their data.
C10_Witness ==
    /\ Len(history) = 2
    /\ Len(last_live_data) = 1
    /\ run.pressed
    /\ run.error

====
